---- MODULE Spec2Model ----
(***************************************************************************)
(* Model of source/traefik_ingressroute.go: the Traefik IngressRoute       *)
(* source of external-mdns.  A TraefikIngressRouteSource resolves the      *)
(* Traefik LoadBalancer IPs once at construction, registers add / update / *)
(* delete handlers on a shared informer, and each handler builds mDNS      *)
(* records from the route's match rules and sends them, one blocking send  *)
(* per record, on the outbound channel notifyChan.                         *)
(*                                                                         *)
(* Strings whose characters the code inspects (host names) are sequences   *)
(* of one-character strings; strings the code only compares or copies      *)
(* (namespaces, IP texts, rule expressions) are TLA+ strings.              *)
(***************************************************************************)
EXTENDS Integers, Sequences, FiniteSets, TLC

VARIABLES
    cluster,      \* the Service listing the API server would return now
    aborted,      \* log.Fatalf was reached: the process has exited
    ctor,         \* per controller: "none" | "built"
    dstIPAddr,    \* per controller: s.dstIPAddr, the IPs resolved at construction
    resolveCount, \* per controller: number of getDstIPAddr calls made for it
    ctorListing,  \* per controller: the Service listing its constructor was given
    runPc,        \* per controller: position of Run
    hasSynced,    \* per controller: sharedInformer.HasSynced()
    syncLogged,   \* per controller: Run logged "timed out waiting for caches to sync"
    runErr,       \* per controller: the error Run returned
    stopCh,       \* TRUE once the stop channel is closed
    hSegs,        \* per controller: what the running handler does after its current loop
    hInv,         \* per controller: number of the handler invocation in progress
    pending,      \* per controller: records of the current range loop not yet sent
    chanCap,      \* capacity of notifyChan (0: unbuffered)
    notifyChan,   \* records buffered in notifyChan
    consumerOn,   \* the consumer is still receiving
    received,     \* what the consumer has received, in order
    nEvents,      \* number of handler invocations so far
    built,        \* per invocation: the records its buildRecords calls produced
    calls,        \* per invocation: [ctrl, kind, objs] of the handler call, and
                  \* whether the Services had changed since construction
    arg,          \* a direct call of one function: [fn, val], the function and
                  \* its argument
    ret           \* the result of that call: <<>> before it returns, <<r>> after

vars == <<cluster, aborted, ctor, dstIPAddr, resolveCount, ctorListing, runPc,
          hasSynced, syncLogged, runErr, stopCh, hSegs, hInv, pending, chanCap,
          notifyChan, consumerOn, received, nEvents, built, calls, arg, ret>>

-----------------------------------------------------------------------------
(* Bounds of the model *)

\* handler invocations delivered in one behaviour
MaxEvents == 2
\* largest capacity of the outbound channel considered
MaxCap == 1
\* depth of the rule trees handed to extractHosts directly
MaxDepth == 2
\* number of hosts of a route entry handed to the host loop directly
MaxHosts == 3
\* number of Services in a listing handed to getDstIPAddr directly
MaxServices == 2

\* the controllers created by the process (one per watched kind)
Controllers == {"c1", "c2"}

-----------------------------------------------------------------------------
(* Strings as character sequences.  Where a computed value is used       *)
(* several times it is bound once, as the element of a one-element set.  *)

Local == <<"l", "o", "c", "a", "l">>
DotLocal == <<".">> \o Local

HasPrefix(s, p) == Len(s) >= Len(p) /\ SubSeq(s, 1, Len(p)) = p

HasSuffix(s, p) == Len(s) >= Len(p) /\ SubSeq(s, Len(s) - Len(p) + 1, Len(s)) = p

\* strings.Index for a one-character needle, 1-based; 0 when absent
Index(s, ch) ==
    IF \E i \in 1..Len(s) : s[i] = ch
    THEN CHOOSE i \in 1..Len(s) : s[i] = ch /\ \A j \in 1..(i - 1) : s[j] # ch
    ELSE 0

\* strings.LastIndex for a one-character needle, 1-based; 0 when absent
LastIndex(s, ch) ==
    IF \E i \in 1..Len(s) : s[i] = ch
    THEN CHOOSE i \in 1..Len(s) : s[i] = ch /\ \A j \in (i + 1)..Len(s) : s[j] # ch
    ELSE 0

\* strings.Contains(s, "..")
HasEmptyLabel(s) == \E i \in 1..(Len(s) - 1) : s[i] = "." /\ s[i + 1] = "."

\* strings.TrimSuffix
TrimSuffix(s, p) == IF HasSuffix(s, p) THEN SubSeq(s, 1, Len(s) - Len(p)) ELSE s

-----------------------------------------------------------------------------------------------------------------------------------------------------
(* tld.Parse(fmt.Sprintf("http://%s", host)), lines 143-155.  Host names   *)
(* are over lower-case letters, "." and "/", so the URL has no port, user  *)
(* info, query, fragment or escape and url.Parse itself does not fail.     *)

UrlHostUpTo(host, slash) == IF slash = 0 THEN host ELSE SubSeq(host, 1, slash - 1)

\* url.Parse("http://" + host).Host: the authority ends at the first "/"
UrlHost(host) == UrlHostUpTo(host, Index(host, "/"))

\* the labels of the public suffix list that occur in the model's hosts
IcannSuffixes == { <<"c", "o", "m">> }

LastLabel(domain) == SubSeq(domain, LastIndex(domain, ".") + 1, Len(domain))

suffixRule(last) == [suffix |-> last, icann |-> last \in IcannSuffixes]

\* publicsuffix.PublicSuffix: no rule matches "local", so the prevailing
\* rule is "*" and the suffix is the last label
PublicSuffix(domain) == suffixRule(LastLabel(domain))

etld1Of(domain, suffix) ==
    IF Len(domain) <= Len(suffix)
    THEN [etld1 |-> <<>>, err |-> "publicsuffix: cannot derive eTLD+1"]
    ELSE IF domain[Len(domain) - Len(suffix)] # "."
    THEN [etld1 |-> <<>>, err |-> "publicsuffix: invalid public suffix"]
    ELSE [etld1 |-> SubSeq(domain,
                           LastIndex(SubSeq(domain, 1, Len(domain) - Len(suffix) - 1),
                                     ".") + 1,
                           Len(domain)),
          err |-> ""]

\* publicsuffix.EffectiveTLDPlusOne
EffectiveTLDPlusOne(domain) ==
    IF HasPrefix(domain, <<".">>) \/ HasSuffix(domain, <<".">>) \/ HasEmptyLabel(domain)
    THEN [etld1 |-> <<>>, err |-> "publicsuffix: empty label in domain"]
    ELSE etld1Of(domain, PublicSuffix(domain).suffix)

\* the domain name is etld1 up to its first dot, the subdomain what
\* precedes "." + etld1 in the host
tldCut(dom, etld1, dot, rest) ==
    IF dot = 0
    THEN [Subdomain |-> <<>>, Domain |-> <<>>, err |-> "tld: failed parsing"]
    ELSE [Subdomain |-> IF rest # dom THEN rest ELSE <<>>,
          Domain |-> SubSeq(etld1, 1, dot - 1),
          err |-> ""]

tldFields(dom, etld1) ==
    CHOOSE r \in { tldCut(dom, e, Index(e, "."), TrimSuffix(dom, <<".">> \o e)) :
                     e \in {etld1} } : TRUE

\* a host that is its own, unlisted suffix is taken as its eTLD+1
tldSplit(dom, e1, ps) ==
    IF e1.err # "" /\ ~ps.icann /\ ps.suffix = dom THEN tldFields(dom, dom)
    ELSE IF e1.err # ""
    THEN [Subdomain |-> <<>>, Domain |-> <<>>, err |-> e1.err]
    ELSE tldFields(dom, e1.etld1)

\* an empty URL host yields a URL with every extra field empty and no error
tldParseHost(dom) ==
    IF dom = <<>>
    THEN [Subdomain |-> <<>>, Domain |-> <<>>, err |-> ""]
    ELSE tldSplit(dom, EffectiveTLDPlusOne(dom), PublicSuffix(dom))

\* tld.Parse
tldParse(host) == CHOOSE r \in { tldParseHost(dom) : dom \in {UrlHost(host)} } : TRUE

\* lines 151-155: the advertised name
hostnameOf(parsedHost) ==
    IF parsedHost.Subdomain # <<>>
    THEN parsedHost.Subdomain \o <<".">> \o parsedHost.Domain
    ELSE parsedHost.Domain

-----
(* net.IP: a byte sequence, nil is the empty sequence *)

NilIP == <<>>

\* net.ParseIP on the IP texts of the model's services
ParseIP(str) ==
    CASE str = "10.0.0.1" -> <<10, 0, 0, 1>>
      [] str = "10.0.0.2" -> <<10, 0, 0, 2>>
      [] str = "::ffff:10.0.0.1" -> <<10, 0, 0, 1>>
      [] OTHER -> NilIP

\* net.IP.String
IPString(ip) ==
    CASE ip = <<10, 0, 0, 1>> -> "10.0.0.1"
      [] ip = <<10, 0, 0, 2>> -> "10.0.0.2"
      [] ip = NilIP -> "<nil>"
      [] OTHER -> "?"

RECURSIVE FlattenSeq(_)
FlattenSeq(ss) == IF ss = <<>> THEN <<>> ELSE Head(ss) \o FlattenSeq(Tail(ss))

\* an ingress loop that ends at the first IP text that does not parse
ingressIPsUntilInvalid(service) ==
    LET n == Len(service.ingress)
        bad == {i \in 1..n : ParseIP(service.ingress[i]) = NilIP}
        stop == IF bad = {} THEN n + 1 ELSE CHOOSE i \in bad : \A j \in bad : i <= j
    IN  [i \in 1..(stop - 1) |-> ParseIP(service.ingress[i])]

\* lines 223-230: the parsable ingress IPs of one service, in order
ingressIPs(service) ==
    LET n == Len(service.ingress)
    IN  FlattenSeq([i \in 1..n |->
            IF ParseIP(service.ingress[i]) # NilIP
            THEN <<ParseIP(service.ingress[i])>> ELSE <<>>])

\* getDstIPAddr once the listing succeeded, lines 211-233
getDstIPAddr(services) ==
    FlattenSeq([i \in 1..Len(services) |->
        IF services[i].name # "traefik" THEN <<>>
        ELSE IF services[i].type # "LoadBalancer" THEN <<>>
        ELSE ingressIPs(services[i])])

\* lines 107-112: the IP texts put into every record
ipAddrs(dst) ==
    FlattenSeq([i \in 1..Len(dst) |->
        IF Len(dst[i]) # 0 THEN <<IPString(dst[i])>> ELSE <<>>])

-----------------------------------------------------------------------------
(* rules.Tree and the rule parser.  A *Tree pointer is a sequence of       *)
(* length at most one: <<>> is nil, <<t>> points to t.                     *)

Leaf(matcher, not, value) ==
    [Matcher |-> matcher, Not |-> not, Value |-> <<value>>,
     RuleLeft |-> <<>>, RuleRight |-> <<>>]

Node(op, left, right) ==
    [Matcher |-> op, Not |-> FALSE, Value |-> <<>>,
     RuleLeft |-> <<left>>, RuleRight |-> <<right>>]

H_a == <<"a">> \o DotLocal
H_b == <<"b">> \o DotLocal
H_svc_ns == <<"s", "v", "c", ".", "n", "s">> \o DotLocal
H_example_com == <<"e", "x", "a", "m", "p", "l", "e", ".", "c", "o", "m">>
H_dot == DotLocal
H_empty_label == <<"a", ".">> \o DotLocal
H_slash == <<"/">> \o DotLocal
P_x == <<"/", "x">>
RE_local == <<".", "*", ".", "l", "o", "c", "a", "l">>

\* parser.Parse(route.Match) followed by treeBuilder(), lines 121-131, on
\* the rule expressions of the model's routes; a malformed expression is a
\* parse error
ParseRule(match) ==
    CASE match = "Host(a.local)" ->
            [err |-> "", tree |-> <<Leaf("Host", FALSE, H_a)>>]
      [] match = "Host(b.local) && Path(/x)" ->
            [err |-> "", tree |-> <<Node("and", Leaf("Host", FALSE, H_b),
                                         Leaf("Path", FALSE, P_x))>>]
      [] match = "Host(svc.ns.local) || Host(example.com)" ->
            [err |-> "", tree |-> <<Node("or", Leaf("Host", FALSE, H_svc_ns),
                                         Leaf("Host", FALSE, H_example_com))>>]
      [] match = "Host(a.local) && !Host(b.local)" ->
            [err |-> "", tree |-> <<Node("and", Leaf("Host", FALSE, H_a),
                                         Leaf("Host", TRUE, H_b))>>]
      [] match = "Host(a.local) || HostRegexp(.*.local)" ->
            [err |-> "", tree |-> <<Node("or", Leaf("Host", FALSE, H_a),
                                         Leaf("HostRegexp", FALSE, RE_local))>>]
      [] match = "Host(.local) || Host(a..local) || Host(b.local)" ->
            [err |-> "", tree |-> <<Node("or",
                                         Node("or", Leaf("Host", FALSE, H_dot),
                                              Leaf("Host", FALSE, H_empty_label)),
                                         Leaf("Host", FALSE, H_b))>>]
      [] match = "Host(/.local)" ->
            [err |-> "", tree |-> <<Leaf("Host", FALSE, H_slash)>>]
      [] OTHER -> [err |-> "parse error", tree |-> <<>>]

RECURSIVE extractHosts(_)

\* the recursive call on a child pointer, lines 239-252
extractChild(ptr) ==
    IF ptr # <<>> THEN extractHosts(ptr[1]) ELSE [hosts |-> <<>>, err |-> ""]

\* a node inspection that passes over HostRegexp like any other matcher
extractNodeRegexpIgnored(tree, hosts) ==
    IF tree.Not THEN [hosts |-> hosts, err |-> ""]
    ELSE IF tree.Matcher = "Host"
    THEN [hosts |-> Append(hosts, tree.Value[1]), err |-> ""]
    ELSE [hosts |-> hosts, err |-> ""]

\* lines 254-268: the node itself, after its children
extractNode(tree, hosts) ==
    IF tree.Not THEN [hosts |-> hosts, err |-> ""]
    ELSE IF tree.Matcher = "Host"
    THEN [hosts |-> Append(hosts, tree.Value[1]), err |-> ""]
    ELSE IF tree.Matcher = "HostRegexp"
    THEN [hosts |-> hosts, err |-> "HostRegexp not supported"]
    ELSE [hosts |-> hosts, err |-> ""]

\* a traversal that takes the right subtree before the left one
extractChildrenRightFirst(tree, left, right) ==
    IF right.err # "" THEN [hosts |-> <<>>, err |-> right.err]
    ELSE IF left.err # "" THEN [hosts |-> right.hosts, err |-> left.err]
    ELSE extractNode(tree, right.hosts \o left.hosts)

extractChildren(tree, left, right) ==
    IF left.err # "" THEN [hosts |-> <<>>, err |-> left.err]
    ELSE IF right.err # "" THEN [hosts |-> left.hosts, err |-> right.err]
    ELSE extractNode(tree, left.hosts \o right.hosts)

\* extractHosts, lines 236-269
extractHosts(tree) ==
    extractChildren(tree, extractChild(tree.RuleLeft), extractChild(tree.RuleRight))

-----------------------------------------------------------------------------
(* resource.Resource and buildRecords *)

Added == "Added"
Deleted == "Deleted"
Updated == "Updated"

\* a record assembly that drops a record without IPs
hostRecordNeedsIPs(parsedHost, action, namespace, ips) ==
    IF parsedHost.err # "" \/ ips = <<>> THEN <<>>
    ELSE << [SourceType |-> "ingress",
             Action |-> action,
             Name |-> hostnameOf(parsedHost),
             Namespace |-> namespace,
             IPs |-> ips] >>

\* lines 146-164: the record of one parsed host; a host tld.Parse rejects is
\* logged and skipped
hostRecord(parsedHost, action, namespace, ips) ==
    IF parsedHost.err # "" THEN <<>>
    ELSE << [SourceType |-> "ingress",
             Action |-> action,
             Name |-> hostnameOf(parsedHost),
             Namespace |-> namespace,
             IPs |-> ips] >>

\* lines 138-144: hosts that do not end in .local are skipped
hostEntry(host, action, namespace, ips) ==
    IF ~HasSuffix(host, DotLocal) THEN <<>>
    ELSE hostRecord(tldParse(host), action, namespace, ips)

\* a host loop that ends at the first host that yields no record
hostRecordsUntilSkip(hosts, action, namespace, ips) ==
    LET recs == [i \in 1..Len(hosts) |-> hostEntry(hosts[i], action, namespace, ips)]
        skipped == {i \in 1..Len(hosts) : recs[i] = <<>>}
        stop == IF skipped = {} THEN Len(hosts) + 1
                ELSE CHOOSE i \in skipped : \A j \in skipped : i <= j
    IN  FlattenSeq([i \in 1..(stop - 1) |-> recs[i]])

\* lines 137-165: the records of the hosts of one route entry, in order
hostRecords(hosts, action, namespace, ips) ==
    FlattenSeq([i \in 1..Len(hosts) |-> hostEntry(hosts[i], action, namespace, ips)])

entryParsed(parsed) ==
    IF parsed.err # "" THEN [hosts |-> <<>>, err |-> parsed.err]
    ELSE extractHosts(parsed.tree[1])

\* lines 121-135: the hosts of one route entry, or its parse or extraction
\* error
entryHosts(match) == entryParsed(ParseRule(match))

RECURSIVE routeLoop(_, _, _, _, _)

\* a loop that skips an entry in error and goes on with the next entry
routeEntrySkip(ingress, i, action, ips, records, entry) ==
    IF entry.err # "" THEN routeLoop(ingress, i + 1, action, ips, records)
    ELSE routeLoop(ingress, i + 1, action, ips,
                   records \o hostRecords(entry.hosts, action, ingress.Namespace, ips))

\* a loop that, at an entry in error, returns the records of the entries
\* before it together with the error
routeEntryKeepEarlier(ingress, i, action, ips, records, entry) ==
    IF entry.err # "" THEN [records |-> records, err |-> entry.err]
    ELSE routeLoop(ingress, i + 1, action, ips,
                   records \o hostRecords(entry.hosts, action, ingress.Namespace, ips))

\* lines 122-124, 133-135 and 137-165: an entry in error ends buildRecords
\* with no records; otherwise its records are appended and the loop goes on
routeEntry(ingress, i, action, ips, records, entry) ==
    IF entry.err # "" THEN [records |-> <<>>, err |-> entry.err]
    ELSE routeLoop(ingress, i + 1, action, ips,
                   records \o hostRecords(entry.hosts, action, ingress.Namespace, ips))

\* the loop over ingress.Spec.Routes, lines 120-166, from entry i on with
\* the records gathered so far
routeLoop(ingress, i, action, ips, records) ==
    IF i > Len(ingress.Routes) THEN [records |-> records, err |-> ""]
    ELSE CHOOSE r \in { routeEntry(ingress, i, action, ips, records, entry) :
                          entry \in {entryHosts(ingress.Routes[i])} } : TRUE

\* buildRecords resolving the Traefik IPs again at every call
buildRecordsLive(dst, obj, action) ==
    IF obj.kind # "IngressRoute" THEN [records |-> <<>>, err |-> ""]
    ELSE routeLoop(obj, 1, action, ipAddrs(getDstIPAddr(cluster)), <<>>)

\* buildRecords appending to a slice that outlives the call
buildRecordsKeeping(dst, obj, action) ==
    IF obj.kind # "IngressRoute" THEN [records |-> <<>>, err |-> ""]
    ELSE routeLoop(obj, 1, action, ipAddrs(dst), FlattenSeq(built))

\* buildRecords reporting an object of another type as an error
buildRecordsTypeError(dst, obj, action) ==
    IF obj.kind # "IngressRoute" THEN [records |-> <<>>, err |-> "unexpected object type"]
    ELSE routeLoop(obj, 1, action, ipAddrs(dst), <<>>)

\* buildRecords, lines 99-169; dst is s.dstIPAddr
buildRecords(dst, obj, action) ==
    IF obj.kind # "IngressRoute" THEN [records |-> <<>>, err |-> ""]
    ELSE routeLoop(obj, 1, action, ipAddrs(dst), <<>>)

-----
(* The event handlers.  A handler is a sequence of range loops; each loop  *)
(* sends the records of one buildRecords call.  A step of the model runs   *)
(* the handler up to its next channel send.                                *)

\* lines 83-86 and 93-96: record.Action overwritten before the send
forceAction(records, force) ==
    [i \in 1..Len(records) |->
        IF force = "" THEN records[i] ELSE [records[i] EXCEPT !.Action = force]]

\* onAdd, lines 53-63
onAdd(obj) ==
    << [obj |-> obj, action |-> Added, force |-> "", returnOnErr |-> TRUE] >>

\* onDelete, lines 65-75
onDelete(obj) ==
    << [obj |-> obj, action |-> Deleted, force |-> "", returnOnErr |-> TRUE] >>

\* onUpdate with the two loops in the other order
onUpdateNewFirst(oldObj, newObj) ==
    << [obj |-> newObj, action |-> Updated, force |-> Added, returnOnErr |-> FALSE],
       [obj |-> oldObj, action |-> Updated, force |-> Deleted, returnOnErr |-> FALSE] >>

\* onUpdate returning on a build error, as onAdd and onDelete do
onUpdateReturnOnErr(oldObj, newObj) ==
    << [obj |-> oldObj, action |-> Updated, force |-> Deleted, returnOnErr |-> TRUE],
       [obj |-> newObj, action |-> Updated, force |-> Added, returnOnErr |-> TRUE] >>

\* onUpdate sending the records as buildRecords made them
onUpdateNoForce(oldObj, newObj) ==
    << [obj |-> oldObj, action |-> Updated, force |-> "", returnOnErr |-> FALSE],
       [obj |-> newObj, action |-> Updated, force |-> "", returnOnErr |-> FALSE] >>

\* onUpdate announcing the new route without withdrawing the old one
onUpdateAddsOnly(oldObj, newObj) ==
    << [obj |-> newObj, action |-> Updated, force |-> Added, returnOnErr |-> FALSE] >>

\* onUpdate, lines 77-97: the old side, then the new side; an error is
\* printed and the handler goes on
onUpdate(oldObj, newObj) ==
    << [obj |-> oldObj, action |-> Updated, force |-> Deleted, returnOnErr |-> FALSE],
       [obj |-> newObj, action |-> Updated, force |-> Added, returnOnErr |-> FALSE] >>

loopForced(b, force) == [records |-> forceAction(b.records, force), err |-> b.err]

\* the records one loop of a handler ranges over
loopRecords(dst, seg) ==
    CHOOSE r \in { loopForced(b, seg.force) :
                     b \in {buildRecords(dst, seg.obj, seg.action)} } : TRUE

RECURSIVE advance(_, _)

advanceLoop(dst, segs, r) ==
    IF r.err # "" /\ Head(segs).returnOnErr THEN [pending |-> <<>>, segs |-> <<>>]
    ELSE IF r.records = <<>> THEN advance(dst, Tail(segs))
    ELSE [pending |-> r.records, segs |-> Tail(segs)]

\* run the handler until a loop has a record to send or the handler returns
advance(dst, segs) ==
    IF segs = <<>> THEN [pending |-> <<>>, segs |-> <<>>]
    ELSE CHOOSE a \in { advanceLoop(dst, segs, r) :
                          r \in {loopRecords(dst, Head(segs))} } : TRUE

\* a loop that sends the last record of the slice at every iteration
nextRecordLast(records) == records[Len(records)]

\* for _, record := range ...: the record the loop sends next, and the rest
nextRecord(records) == Head(records)

restRecords(records) == Tail(records)

-----------------------------------------------------------------------------
(* Inputs *)

RouteObj(ns, routes) == [kind |-> "IngressRoute", Namespace |-> ns, Routes |-> routes]

\* what a delete event carries when the final state is unknown
Tombstone == [kind |-> "DeletedFinalStateUnknown", Namespace |-> "", Routes |-> <<>>]

O_a == RouteObj("default", << "Host(a.local)" >>)
O_multi == RouteObj("web", << "Host(b.local) && Path(/x)",
                              "Host(svc.ns.local) || Host(example.com)" >>)
O_bad == RouteObj("default", << "Host(a.local)", "Host(" >>)
O_regexp == RouteObj("default", << "Host(b.local) && Path(/x)",
                                   "Host(a.local) || HostRegexp(.*.local)" >>)
O_neg == RouteObj("web", << "Host(a.local) && !Host(b.local)" >>)
O_degenerate == RouteObj("web", << "Host(.local) || Host(a..local) || Host(b.local)" >>)
O_slash == RouteObj("default", << "Host(/.local)" >>)

\* the objects the informer delivers in the handler specification
Objects == {O_a, O_multi, O_bad, O_slash}

Service(name, type, ingress) == [name |-> name, type |-> type, ingress |-> ingress]

L_two == << Service("traefik", "LoadBalancer", << "10.0.0.1" >>),
            Service("traefik", "LoadBalancer", << "10.0.0.2" >>) >>
L_three == << Service("traefik", "LoadBalancer", << "10.0.0.1" >>),
              Service("traefik", "LoadBalancer", << "10.0.0.2", "not-an-ip" >>),
              Service("traefik", "LoadBalancer", << "::ffff:10.0.0.1" >>) >>
L_none == << Service("nginx", "LoadBalancer", << "10.0.0.1" >>),
             Service("traefik", "ClusterIP", << "10.0.0.2" >>) >>

Listings == {L_two, L_three, L_none}

-----------------------------------------------------------------------------
(* Actions *)

idle(c) == pending[c] = <<>> /\ hSegs[c] = <<>>

Started(c, kind, objs, a) ==
    /\ nEvents' = nEvents + 1
    /\ calls' = Append(calls, [ctrl |-> c, kind |-> kind, objs |-> objs,
                                stale |-> cluster # ctorListing[c]])
    /\ built' = Append(built, a.pending)
    /\ hInv' = [hInv EXCEPT ![c] = nEvents + 1]
    /\ pending' = [pending EXCEPT ![c] = a.pending]
    /\ hSegs' = [hSegs EXCEPT ![c] = a.segs]

\* the informer calls a handler of controller c
Deliver(c, kind, objs, segs) ==
    /\ ~aborted
    /\ ctor[c] = "built"
    /\ runPc[c] = "informerRun"
    /\ ~stopCh
    /\ idle(c)
    /\ nEvents < MaxEvents
    /\ \E a \in {advance(dstIPAddr[c], segs)} : Started(c, kind, objs, a)
    /\ UNCHANGED <<cluster, aborted, ctor, dstIPAddr, resolveCount, ctorListing,
                   runPc, hasSynced, syncLogged, runErr, stopCh, chanCap,
                   notifyChan, consumerOn, received>>
    /\ UNCHANGED <<arg, ret>>

AddEvent(c, obj) == Deliver(c, "add", <<obj>>, onAdd(obj))

DeleteEvent(c, obj) == Deliver(c, "delete", <<obj>>, onDelete(obj))

UpdateEvent(c, oldObj, newObj) ==
    Deliver(c, "update", <<oldObj, newObj>>, onUpdate(oldObj, newObj))

\* the record is handed to the channel: buffered if there is room, taken
\* directly by the consumer on an unbuffered channel
Handed(item) ==
    \/ /\ Len(notifyChan) < chanCap
       /\ notifyChan' = Append(notifyChan, item)
       /\ UNCHANGED received
    \/ /\ chanCap = 0
       /\ consumerOn
       /\ received' = Append(received, item)
       /\ UNCHANGED notifyChan

\* after a send: the loop goes on, or the handler runs to its next send
Continued(c, rest, a) ==
    IF rest # <<>>
    THEN /\ pending' = [pending EXCEPT ![c] = rest]
         /\ UNCHANGED <<hSegs, built>>
    ELSE /\ pending' = [pending EXCEPT ![c] = a.pending]
         /\ hSegs' = [hSegs EXCEPT ![c] = a.segs]
         /\ built' = [built EXCEPT ![hInv[c]] = @ \o a.pending]

\* s.notifyChan <- record, lines 61, 73, 85, 95: blocks until the buffer has
\* room or, on an unbuffered channel, the consumer takes the record
SendRecord(c) ==
    /\ ~aborted
    /\ pending[c] # <<>>
    /\ Handed([rec |-> nextRecord(pending[c]), inv |-> hInv[c]])
    /\ \E a \in {advance(dstIPAddr[c], hSegs[c])} :
           Continued(c, restRecords(pending[c]), a)
    /\ UNCHANGED <<cluster, aborted, ctor, dstIPAddr, resolveCount, ctorListing,
                   runPc, hasSynced, syncLogged, runErr, stopCh, hInv, chanCap,
                   consumerOn, nEvents, calls>>
    /\ UNCHANGED <<arg, ret>>

\* the advertiser takes a record from the channel
Receive ==
    /\ ~aborted
    /\ consumerOn
    /\ notifyChan # <<>>
    /\ received' = Append(received, Head(notifyChan))
    /\ notifyChan' = Tail(notifyChan)
    /\ UNCHANGED <<cluster, aborted, ctor, dstIPAddr, resolveCount, ctorListing,
                   runPc, hasSynced, syncLogged, runErr, stopCh, hSegs, hInv,
                   pending, chanCap, consumerOn, nEvents, built, calls>>
    /\ UNCHANGED <<arg, ret>>

-----------------------------------------------------------------------------
(* The handler specification: both controllers are constructed and their   *)
(* informers run; the informers deliver events, the handlers send, the     *)
(* advertiser receives.                                                    *)

Init ==
    /\ cluster = L_two
    /\ aborted = FALSE
    /\ ctor = [c \in Controllers |-> "built"]
    /\ dstIPAddr = [c \in Controllers |-> getDstIPAddr(L_two)]
    /\ resolveCount = [c \in Controllers |-> 1]
    /\ ctorListing = [c \in Controllers |-> L_two]
    /\ runPc = [c \in Controllers |-> "informerRun"]
    /\ hasSynced = [c \in Controllers |-> TRUE]
    /\ syncLogged = [c \in Controllers |-> FALSE]
    /\ runErr = [c \in Controllers |-> "none"]
    /\ stopCh = FALSE
    /\ hSegs = [c \in Controllers |-> <<>>]
    /\ hInv = [c \in Controllers |-> 0]
    /\ pending = [c \in Controllers |-> <<>>]
    /\ chanCap \in 0..MaxCap
    /\ notifyChan = <<>>
    /\ consumerOn = TRUE
    /\ received = <<>>
    /\ nEvents = 0
    /\ built = <<>>
    /\ calls = <<>>
    /\ arg = [fn |-> "", val |-> <<>>]
    /\ ret = <<>>

Next ==
    \/ \E c \in Controllers, obj \in Objects : AddEvent(c, obj)
    \/ \E c \in Controllers, obj \in Objects : DeleteEvent(c, obj)
    \/ \E c \in Controllers, oldObj \in Objects, newObj \in Objects :
          UpdateEvent(c, oldObj, newObj)
    \/ \E c \in Controllers : SendRecord(c)
    \/ Receive

Spec == Init /\ [][Next]_vars

-----------------------------------------------------------------------------
(* Construction, Run and the stop signal *)

\* a constructor that leaves a failed listing to be tried again
ConstructRetry(c, listOk) ==
    /\ ~aborted
    /\ ctor[c] = "none"
    /\ resolveCount' = [resolveCount EXCEPT ![c] = @ + 1]
    /\ IF listOk
       THEN /\ dstIPAddr' = [dstIPAddr EXCEPT ![c] = getDstIPAddr(cluster)]
            /\ ctorListing' = [ctorListing EXCEPT ![c] = cluster]
            /\ ctor' = [ctor EXCEPT ![c] = "built"]
       ELSE UNCHANGED <<dstIPAddr, ctorListing, ctor>>
    /\ UNCHANGED <<cluster, aborted, runPc, hasSynced, syncLogged, runErr, stopCh,
                   hSegs, hInv, pending, chanCap, notifyChan, consumerOn, received,
                   nEvents, built, calls>>
    /\ UNCHANGED <<arg, ret>>

\* NewTraefikIngressRouteWatcher, lines 171-202: the Services are listed
\* once; a failed listing ends the process (log.Fatalf), otherwise the IPs
\* are kept in dstIPAddr and the handlers are registered
Construct(c, listOk) ==
    /\ ~aborted
    /\ ctor[c] = "none"
    /\ resolveCount' = [resolveCount EXCEPT ![c] = @ + 1]
    /\ IF listOk
       THEN /\ dstIPAddr' = [dstIPAddr EXCEPT ![c] = getDstIPAddr(cluster)]
            /\ ctorListing' = [ctorListing EXCEPT ![c] = cluster]
            /\ ctor' = [ctor EXCEPT ![c] = "built"]
            /\ UNCHANGED aborted
       ELSE /\ aborted' = TRUE
            /\ UNCHANGED <<dstIPAddr, ctorListing, ctor>>
    /\ UNCHANGED <<cluster, runPc, hasSynced, syncLogged, runErr, stopCh, hSegs,
                   hInv, pending, chanCap, notifyChan, consumerOn, received,
                   nEvents, built, calls>>
    /\ UNCHANGED <<arg, ret>>

\* the Services of the cluster change
ClusterChange(listing) ==
    /\ ~aborted
    /\ listing # cluster
    /\ cluster' = listing
    /\ UNCHANGED <<aborted, ctor, dstIPAddr, resolveCount, ctorListing, runPc,
                   hasSynced, syncLogged, runErr, stopCh, hSegs, hInv, pending,
                   chanCap, notifyChan, consumerOn, received, nEvents, built, calls>>
    /\ UNCHANGED <<arg, ret>>

\* Run, line 46: Run calls s.sharedInformer.Run(stopCh), which runs the
\* informer in the calling goroutine
RunStart(c) ==
    /\ ~aborted
    /\ ctor[c] = "built"
    /\ runPc[c] = "init"
    /\ runPc' = [runPc EXCEPT ![c] = "informerRun"]
    /\ UNCHANGED <<cluster, aborted, ctor, dstIPAddr, resolveCount, ctorListing,
                   hasSynced, syncLogged, runErr, stopCh, hSegs, hInv, pending,
                   chanCap, notifyChan, consumerOn, received, nEvents, built, calls>>
    /\ UNCHANGED <<arg, ret>>

\* the running informer completes its initial list: HasSynced turns true
InformerSync(c) ==
    /\ ~aborted
    /\ runPc[c] = "informerRun"
    /\ ~stopCh
    /\ ~hasSynced[c]
    /\ hasSynced' = [hasSynced EXCEPT ![c] = TRUE]
    /\ UNCHANGED <<cluster, aborted, ctor, dstIPAddr, resolveCount, ctorListing,
                   runPc, syncLogged, runErr, stopCh, hSegs, hInv, pending,
                   chanCap, notifyChan, consumerOn, received, nEvents, built, calls>>
    /\ UNCHANGED <<arg, ret>>

\* the stop channel is closed
Stop ==
    /\ ~aborted
    /\ ~stopCh
    /\ stopCh' = TRUE
    /\ UNCHANGED <<cluster, aborted, ctor, dstIPAddr, resolveCount, ctorListing,
                   runPc, hasSynced, syncLogged, runErr, hSegs, hInv, pending,
                   chanCap, notifyChan, consumerOn, received, nEvents, built, calls>>
    /\ UNCHANGED <<arg, ret>>

\* line 46 returns: sharedInformer.Run returns once stopCh is closed and the
\* goroutine that runs the handlers has finished the handler it is in
InformerStopped(c) ==
    /\ ~aborted
    /\ runPc[c] = "informerRun"
    /\ stopCh
    /\ idle(c)
    /\ runPc' = [runPc EXCEPT ![c] = "waitSync"]
    /\ UNCHANGED <<cluster, aborted, ctor, dstIPAddr, resolveCount, ctorListing,
                   hasSynced, syncLogged, runErr, stopCh, hSegs, hInv, pending,
                   chanCap, notifyChan, consumerOn, received, nEvents, built, calls>>
    /\ UNCHANGED <<arg, ret>>

\* a Run that treats the failed wait as fatal
RunReturnFatal(c) ==
    /\ ~aborted
    /\ runPc[c] = "waitSync"
    /\ syncLogged' = [syncLogged EXCEPT ![c] = ~hasSynced[c]]
    /\ runErr' = [runErr EXCEPT ![c] = IF hasSynced[c] THEN "nil" ELSE "timed out"]
    /\ aborted' = ~hasSynced[c]
    /\ runPc' = [runPc EXCEPT ![c] = "returned"]
    /\ UNCHANGED <<cluster, ctor, dstIPAddr, resolveCount, ctorListing,
                   hasSynced, stopCh, hSegs, hInv, pending, chanCap, notifyChan,
                   consumerOn, received, nEvents, built, calls>>
    /\ UNCHANGED <<arg, ret>>

\* lines 47-50: WaitForCacheSync fails if the cache has not synced when the
\* stop channel is closed; the failure is logged and Run returns nil
RunReturn(c) ==
    /\ ~aborted
    /\ runPc[c] = "waitSync"
    /\ syncLogged' = [syncLogged EXCEPT ![c] = ~hasSynced[c]]
    /\ runErr' = [runErr EXCEPT ![c] = "nil"]
    /\ runPc' = [runPc EXCEPT ![c] = "returned"]
    /\ UNCHANGED <<cluster, aborted, ctor, dstIPAddr, resolveCount, ctorListing,
                   hasSynced, stopCh, hSegs, hInv, pending, chanCap, notifyChan,
                   consumerOn, received, nEvents, built, calls>>
    /\ UNCHANGED <<arg, ret>>

\* after the stop signal the advertiser stops receiving
ConsumerStop ==
    /\ ~aborted
    /\ stopCh
    /\ consumerOn
    /\ consumerOn' = FALSE
    /\ UNCHANGED <<cluster, aborted, ctor, dstIPAddr, resolveCount, ctorListing,
                   runPc, hasSynced, syncLogged, runErr, stopCh, hSegs, hInv,
                   pending, chanCap, notifyChan, received, nEvents, built, calls>>
    /\ UNCHANGED <<arg, ret>>

\* the objects the informer delivers in the life-cycle and construction
\* specifications
LifeObjects == {O_a}

-----------------------------------------------------------------------------
(* The life-cycle specification: both controllers are constructed; Run is  *)
(* started for each, the informers sync and deliver events, the stop       *)
(* signal is raised, the advertiser may stop receiving.                    *)

LifeInit ==
    /\ cluster = L_two
    /\ aborted = FALSE
    /\ ctor = [c \in Controllers |-> "built"]
    /\ dstIPAddr = [c \in Controllers |-> getDstIPAddr(L_two)]
    /\ resolveCount = [c \in Controllers |-> 1]
    /\ ctorListing = [c \in Controllers |-> L_two]
    /\ runPc = [c \in Controllers |-> "init"]
    /\ hasSynced = [c \in Controllers |-> FALSE]
    /\ syncLogged = [c \in Controllers |-> FALSE]
    /\ runErr = [c \in Controllers |-> "none"]
    /\ stopCh = FALSE
    /\ hSegs = [c \in Controllers |-> <<>>]
    /\ hInv = [c \in Controllers |-> 0]
    /\ pending = [c \in Controllers |-> <<>>]
    /\ chanCap \in 0..MaxCap
    /\ notifyChan = <<>>
    /\ consumerOn = TRUE
    /\ received = <<>>
    /\ nEvents = 0
    /\ built = <<>>
    /\ calls = <<>>
    /\ arg = [fn |-> "", val |-> <<>>]
    /\ ret = <<>>

LifeNext ==
    \/ \E c \in Controllers : RunStart(c)
    \/ \E c \in Controllers : InformerSync(c)
    \/ Stop
    \/ \E c \in Controllers : InformerStopped(c)
    \/ \E c \in Controllers : RunReturn(c)
    \/ ConsumerStop
    \/ \E c \in Controllers, obj \in LifeObjects : AddEvent(c, obj)
    \/ \E c \in Controllers, obj \in LifeObjects : DeleteEvent(c, obj)
    \/ \E c \in Controllers, oldObj \in LifeObjects, newObj \in LifeObjects :
          UpdateEvent(c, oldObj, newObj)
    \/ \E c \in Controllers : SendRecord(c)
    \/ Receive

LifeSpec == LifeInit /\ [][LifeNext]_vars

\* every goroutine that can take a step eventually takes it: Run, the
\* informer's shutdown, the handlers' sends, the advertiser's receive
LifeFairness ==
    /\ \A c \in Controllers : WF_vars(RunStart(c))
    /\ \A c \in Controllers : WF_vars(InformerStopped(c))
    /\ \A c \in Controllers : WF_vars(RunReturn(c))
    /\ \A c \in Controllers : WF_vars(SendRecord(c))
    /\ WF_vars(Receive)

FairLifeSpec == LifeInit /\ [][LifeNext]_vars /\ LifeFairness

-----------------------------------------------------------------------------
(* The construction specification: the process constructs its controllers  *)
(* and starts Run for each while the Services of the cluster change; the   *)
(* informers deliver events.                                               *)

CtorInit ==
    /\ cluster = L_two
    /\ aborted = FALSE
    /\ ctor = [c \in Controllers |-> "none"]
    /\ dstIPAddr = [c \in Controllers |-> <<>>]
    /\ resolveCount = [c \in Controllers |-> 0]
    /\ ctorListing = [c \in Controllers |-> <<>>]
    /\ runPc = [c \in Controllers |-> "init"]
    /\ hasSynced = [c \in Controllers |-> FALSE]
    /\ syncLogged = [c \in Controllers |-> FALSE]
    /\ runErr = [c \in Controllers |-> "none"]
    /\ stopCh = FALSE
    /\ hSegs = [c \in Controllers |-> <<>>]
    /\ hInv = [c \in Controllers |-> 0]
    /\ pending = [c \in Controllers |-> <<>>]
    /\ chanCap = MaxCap
    /\ notifyChan = <<>>
    /\ consumerOn = TRUE
    /\ received = <<>>
    /\ nEvents = 0
    /\ built = <<>>
    /\ calls = <<>>
    /\ arg = [fn |-> "", val |-> <<>>]
    /\ ret = <<>>

CtorNext ==
    \/ \E c \in Controllers, listOk \in BOOLEAN : Construct(c, listOk)
    \/ \E listing \in Listings : ClusterChange(listing)
    \/ \E c \in Controllers : RunStart(c)
    \/ \E c \in Controllers, obj \in LifeObjects : AddEvent(c, obj)
    \/ \E c \in Controllers, obj \in LifeObjects : DeleteEvent(c, obj)
    \/ \E c \in Controllers, oldObj \in LifeObjects, newObj \in LifeObjects :
          UpdateEvent(c, oldObj, newObj)
    \/ \E c \in Controllers : SendRecord(c)
    \/ Receive

CtorSpec == CtorInit /\ [][CtorNext]_vars

-----------------------------------------------------------------------------
(* The mixed-object specification: the handler specification with route    *)
(* objects that fail to parse or to extract and with objects that are not  *)
(* route objects.                                                          *)

MixedObjects == {O_a, O_bad, O_regexp, Tombstone}

MixedNext ==
    \/ \E c \in Controllers, obj \in MixedObjects : AddEvent(c, obj)
    \/ \E c \in Controllers, obj \in MixedObjects : DeleteEvent(c, obj)
    \/ \E c \in Controllers, oldObj \in MixedObjects, newObj \in MixedObjects :
          UpdateEvent(c, oldObj, newObj)
    \/ \E c \in Controllers : SendRecord(c)
    \/ Receive

MixedSpec == Init /\ [][MixedNext]_vars

-----------------------------------------------------------------------------
(* The object-history specification: the informer delivers, per controller *)
(* and route object, the events of the object's life: an add when it is    *)
(* not known, then updates and a delete that carry its last observed       *)
(* state.  There is one route object per namespace.                        *)

Namespaces == << "default", "web" >>

HistoryObjects == {O_a, O_bad, O_multi, O_neg}

\* the handler invocations of controller c on the object of namespace ns
CallsOn(c, ns) ==
    {k \in 1..Len(calls) : calls[k].ctrl = c /\ calls[k].objs[1].Namespace = ns}

\* what the last of the given invocations left of the object: <<>> when
\* it is gone, else its last observed state
LeftBy(ks) ==
    IF ks = {} THEN <<>>
    ELSE LET last == calls[CHOOSE k \in ks : \A j \in ks : j <= k]
         IN  IF last.kind = "delete" THEN <<>>
             ELSE IF last.kind = "update" THEN <<last.objs[2]>>
             ELSE <<last.objs[1]>>

\* the route object of namespace ns as controller c last observed it
Live(c, ns) == LeftBy(CallsOn(c, ns))

HistoryAdd(c, obj) ==
    /\ Live(c, obj.Namespace) = <<>>
    /\ AddEvent(c, obj)

HistoryUpdate(c, newObj) ==
    \E live \in {Live(c, newObj.Namespace)} :
        /\ live # <<>>
        /\ UpdateEvent(c, live[1], newObj)

HistoryDelete(c, ns) ==
    \E live \in {Live(c, ns)} :
        /\ live # <<>>
        /\ DeleteEvent(c, live[1])

HistoryNext ==
    \/ \E c \in Controllers, obj \in HistoryObjects : HistoryAdd(c, obj)
    \/ \E c \in Controllers, newObj \in HistoryObjects : HistoryUpdate(c, newObj)
    \/ \E c \in Controllers, i \in 1..Len(Namespaces) : HistoryDelete(c, Namespaces[i])
    \/ \E c \in Controllers : SendRecord(c)
    \/ Receive

HistorySpec == Init /\ [][HistoryNext]_vars

-----------------------------------------------------------------------------
(* Direct calls of the functions: the argument is drawn from a bounded set *)
(* and the function is applied to it once.                                 *)

ctrlVars == <<cluster, aborted, ctor, dstIPAddr, resolveCount, ctorListing, runPc,
              hasSynced, syncLogged, runErr, stopCh, hSegs, hInv, pending, chanCap,
              notifyChan, consumerOn, received, nEvents, built, calls>>

\* the clauses of the model's rule trees, plain and negated
Leaves ==
    { Leaf("Host", FALSE, H_a), Leaf("Host", FALSE, H_b), Leaf("Host", TRUE, H_a),
      Leaf("Path", FALSE, P_x),
      Leaf("HostRegexp", FALSE, RE_local), Leaf("HostRegexp", TRUE, RE_local) }

\* a composite node, possibly with its Not flag set
NodeNot(op, not, left, right) == [Node(op, left, right) EXCEPT !.Not = not]

TreesOver(sub) ==
    sub \cup { NodeNot(op, not, left, right) :
                 op \in {"and", "or"}, not \in BOOLEAN, left \in sub, right \in sub }

RECURSIVE TreesUpTo(_)
\* the rule trees of depth at most d
TreesUpTo(d) == IF d <= 1 THEN Leaves ELSE TreesOver(TreesUpTo(d - 1))

ExtractArgs == { [fn |-> "extractHosts", val |-> tree] : tree \in TreesUpTo(MaxDepth) }

EntryArgs == { [fn |-> "routeEntry", val |-> tree] : tree \in TreesUpTo(MaxDepth) }

\* the hosts a rule may name
HostSet == {H_a, H_b, H_svc_ns, H_example_com, H_dot, H_empty_label, H_slash}

RECURSIVE SeqsUpTo(_, _)
\* the sequences over S of length at most n
SeqsUpTo(S, n) ==
    IF n = 0 THEN { <<>> }
    ELSE SeqsUpTo(S, n - 1) \cup [1..n -> S]

HostsArgs == { [fn |-> "hostRecords", val |-> hosts] : hosts \in SeqsUpTo(HostSet, MaxHosts) }

\* the Services a listing may hold
ServiceSet ==
    { Service("traefik", "LoadBalancer", << "10.0.0.1" >>),
      Service("traefik", "LoadBalancer", << "10.0.0.2", "not-an-ip", "10.0.0.1" >>),
      Service("traefik", "LoadBalancer", << >>),
      Service("traefik", "ClusterIP", << "10.0.0.2" >>),
      Service("nginx", "LoadBalancer", << "10.0.0.1" >>),
      Service("traefik", "LoadBalancer", << "::ffff:10.0.0.1" >>) }

ResolveArgs ==
    { [fn |-> "getDstIPAddr", val |-> services] :
        services \in SeqsUpTo(ServiceSet, MaxServices) }

PureArgs == ExtractArgs \cup EntryArgs \cup HostsArgs \cup ResolveArgs

\* a route object with one Route entry
OneRoute == RouteObj("default", << "Host(a.local)" >>)

\* extractHosts(tree), lines 236-269
ExtractCall ==
    /\ arg.fn = "extractHosts"
    /\ ret = <<>>
    /\ ret' = << extractHosts(arg.val) >>
    /\ UNCHANGED <<ctrlVars, arg>>

\* one iteration of the loop over the Route entries, lines 120-166, for an
\* entry whose rule parsed to the given tree
EntryCall ==
    /\ arg.fn = "routeEntry"
    /\ ret = <<>>
    /\ ret' = << routeEntry(OneRoute, 1, Added, ipAddrs(getDstIPAddr(L_two)), <<>>,
                            entryParsed([err |-> "", tree |-> <<arg.val>>])) >>
    /\ UNCHANGED <<ctrlVars, arg>>

\* the loop over the hosts of one route entry, lines 137-165
HostsCall ==
    /\ arg.fn = "hostRecords"
    /\ ret = <<>>
    /\ ret' = << hostRecords(arg.val, Added, "default", ipAddrs(getDstIPAddr(L_two))) >>
    /\ UNCHANGED <<ctrlVars, arg>>

\* getDstIPAddr on a listing that succeeded, lines 204-234
ResolveCall ==
    /\ arg.fn = "getDstIPAddr"
    /\ ret = <<>>
    /\ ret' = << getDstIPAddr(arg.val) >>
    /\ UNCHANGED <<ctrlVars, arg>>

PureInit ==
    /\ cluster = L_two
    /\ aborted = FALSE
    /\ ctor = [c \in Controllers |-> "built"]
    /\ dstIPAddr = [c \in Controllers |-> getDstIPAddr(L_two)]
    /\ resolveCount = [c \in Controllers |-> 1]
    /\ ctorListing = [c \in Controllers |-> L_two]
    /\ runPc = [c \in Controllers |-> "init"]
    /\ hasSynced = [c \in Controllers |-> FALSE]
    /\ syncLogged = [c \in Controllers |-> FALSE]
    /\ runErr = [c \in Controllers |-> "none"]
    /\ stopCh = FALSE
    /\ hSegs = [c \in Controllers |-> <<>>]
    /\ hInv = [c \in Controllers |-> 0]
    /\ pending = [c \in Controllers |-> <<>>]
    /\ chanCap = 0
    /\ notifyChan = <<>>
    /\ consumerOn = TRUE
    /\ received = <<>>
    /\ nEvents = 0
    /\ built = <<>>
    /\ calls = <<>>
    /\ arg \in PureArgs
    /\ ret = <<>>

PureNext ==
    \/ ExtractCall
    \/ EntryCall
    \/ HostsCall
    \/ ResolveCall

PureSpec == PureInit /\ [][PureNext]_vars

-----------------------------------------------------------------------------
(* Properties of the handlers *)

\* every record handed to the channel so far, in the order of the sends
sentOrder == received \o notifyChan

Invocations == 1..Len(calls)

\* the records invocation inv has handed to the channel, in order
StreamOf(inv) ==
    LET ofInv(item) == item.inv = inv
        items == SelectSeq(sentOrder, ofInv)
    IN  [i \in 1..Len(items) |-> items[i].rec]

\* the records invocation inv has built and not yet sent
Unsent(inv) ==
    IF hInv[calls[inv].ctrl] = inv THEN pending[calls[inv].ctrl] ELSE <<>>

\* invocation inv has returned
Returned(inv) == hInv[calls[inv].ctrl] # inv \/ idle(calls[inv].ctrl)

\* route entry i of obj parses and its hosts are extracted without error
EntryBuilds(obj, i) == entryHosts(obj.Routes[i]).err = ""

\* the records of route entry i of obj alone
EntryRecords(dst, obj, i, action) ==
    hostRecords(entryHosts(obj.Routes[i]).hosts, action, obj.Namespace, ipAddrs(dst))

\* the records of the entries of obj that build, in entry order
BuildingEntriesRecords(dst, obj, action) ==
    FlattenSeq([i \in 1..Len(obj.Routes) |->
        IF EntryBuilds(obj, i) THEN EntryRecords(dst, obj, i, action) ELSE <<>>])

ActionOf(kind) == IF kind = "add" THEN Added ELSE Deleted

\* the records a handler of the given kind sends for its objects, in order
HandlerRecords(dst, kind, objs) ==
    IF kind = "update"
    THEN forceAction(buildRecords(dst, objs[1], Updated).records, Deleted)
            \o forceAction(buildRecords(dst, objs[2], Updated).records, Added)
    ELSE buildRecords(dst, objs[1], ActionOf(kind)).records

\* the same records with another IP list
WithIPs(records, ips) == [i \in 1..Len(records) |-> [records[i] EXCEPT !.IPs = ips]]

\* C1: within one onUpdate invocation no Added record is handed to the
\* channel before a Deleted record of the same invocation: all Deleted
\* records of the old route precede all Added records of the new route
C1_DeletedBeforeAdded ==
    \A inv \in Invocations :
        calls[inv].kind = "update" =>
            \A i, j \in 1..Len(StreamOf(inv)) :
                (i < j /\ StreamOf(inv)[i].Action = Added)
                    => StreamOf(inv)[j].Action # Deleted

\* an update whose Deleted and Added records have both reached the consumer
C1_Witness ==
    \E i, j \in 1..Len(received) :
        /\ i < j
        /\ received[i].inv = received[j].inv
        /\ calls[received[i].inv].kind = "update"
        /\ received[i].rec.Action = Deleted
        /\ received[j].rec.Action = Added

\* C2 as stated: in onAdd and onDelete the records of every route entry
\* that builds are forwarded, whatever happens to the sibling entries
C2_SiblingsStillForwarded ==
    \A inv \in Invocations :
        (calls[inv].kind \in {"add", "delete"} /\ calls[inv].objs[1].kind = "IngressRoute")
            => built[inv] = BuildingEntriesRecords(dstIPAddr[calls[inv].ctrl],
                                                   calls[inv].objs[1],
                                                   ActionOf(calls[inv].kind))

\* C2 amended: in onAdd and onDelete a parse or extraction error in any
\* route entry leaves the whole object without records, siblings included;
\* when every entry builds, the records of all entries are forwarded
C2_ErrorOmitsWholeObject ==
    \A inv \in Invocations :
        (calls[inv].kind \in {"add", "delete"} /\ calls[inv].objs[1].kind = "IngressRoute")
            => IF \E i \in 1..Len(calls[inv].objs[1].Routes) :
                      ~EntryBuilds(calls[inv].objs[1], i)
               THEN built[inv] = <<>> /\ StreamOf(inv) = <<>>
               ELSE built[inv] = BuildingEntriesRecords(dstIPAddr[calls[inv].ctrl],
                                                        calls[inv].objs[1],
                                                        ActionOf(calls[inv].kind))

\* an add or delete of an object with an entry in error and a sibling entry
\* that alone yields a record
C2_Witness ==
    \E inv \in Invocations :
        /\ calls[inv].kind \in {"add", "delete"}
        /\ \E i \in 1..Len(calls[inv].objs[1].Routes) : ~EntryBuilds(calls[inv].objs[1], i)
        /\ BuildingEntriesRecords(dstIPAddr[calls[inv].ctrl], calls[inv].objs[1],
                                  ActionOf(calls[inv].kind)) # <<>>
        /\ Returned(inv)

\* C3: an onUpdate that has returned has sent all Added records of the new
\* route if building the old route failed, and all Deleted records of the
\* old route if building the new route failed
C3_SidesIndependent ==
    \A inv \in Invocations :
        (calls[inv].kind = "update" /\ Returned(inv)) =>
            LET dst == dstIPAddr[calls[inv].ctrl]
                old == buildRecords(dst, calls[inv].objs[1], Updated)
                new == buildRecords(dst, calls[inv].objs[2], Updated)
            IN  /\ old.err # "" => StreamOf(inv) = forceAction(new.records, Added)
                /\ new.err # "" => StreamOf(inv) = forceAction(old.records, Deleted)

\* an update whose old route fails to build and whose new route's Added
\* record has reached the consumer
C3_Witness ==
    \E k \in 1..Len(received) :
        /\ calls[received[k].inv].kind = "update"
        /\ buildRecords(dstIPAddr[calls[received[k].inv].ctrl],
                        calls[received[k].inv].objs[1], Updated).err # ""
        /\ received[k].rec.Action = Added
        /\ Returned(received[k].inv)

\* C5: every record handed to the channel has Action Added or Deleted
C5_OnlyAddedOrDeleted ==
    \A k \in 1..Len(sentOrder) : sentOrder[k].rec.Action \in {Added, Deleted}

\* a record of an update, built with Action Updated, has reached the consumer
C5_Witness ==
    \E k \in 1..Len(received) :
        /\ calls[received[k].inv].kind = "update"
        /\ received[k].rec.Action = Deleted

\* C8: the channel never holds more than its capacity, and for every handler
\* invocation the records received or buffered, followed by those it has
\* still to send, are exactly the records it built, in the order built:
\* none is dropped, overwritten, duplicated or reordered
C8_ExactlyOnceInOrder ==
    /\ Len(notifyChan) <= chanCap
    /\ \A inv \in Invocations : StreamOf(inv) \o Unsent(inv) = built[inv]

\* both controllers are blocked sending on a full channel after the consumer
\* has received records of two invocations
C8_Witness ==
    /\ chanCap > 0
    /\ Len(notifyChan) = chanCap
    /\ \A c \in Controllers : pending[c] # <<>>
    /\ \E i, j \in 1..Len(received) : received[i].inv # received[j].inv

\* C9: every record handed to the channel has a non-empty Name
C9_NameNonEmpty ==
    \A k \in 1..Len(sentOrder) : sentOrder[k].rec.Name # <<>>

-----------------------------------------------------------------------------
(* Properties of Run and of construction *)

\* C4 as stated: if the initial sync completes and the stop signal is never
\* raised, Run eventually returns
C4_ReturnsOnceSynced ==
    \A c \in Controllers :
        (<>hasSynced[c] /\ []~stopCh) => <>(runPc[c] = "returned")

\* C6: every record handed to the channel carries the IPs resolved from the
\* Service listing its controller's constructor was given, in that order,
\* whatever the Services of the cluster have become since
C6_StaticSnapshot ==
    \A k \in 1..Len(sentOrder) :
        sentOrder[k].rec.IPs =
            ipAddrs(getDstIPAddr(ctorListing[calls[sentOrder[k].inv].ctrl]))

\* a record built after the Services changed has reached the consumer with
\* IPs that differ from those of the cluster's present Services
C6_Witness ==
    \E k \in 1..Len(received) :
        /\ calls[received[k].inv].stale
        /\ received[k].rec.IPs # ipAddrs(getDstIPAddr(cluster))

\* C7 as stated: once the stop signal is raised, a Run that is in progress
\* eventually returns
C7_StopEndsRun ==
    \A c \in Controllers :
        (stopCh /\ runPc[c] = "informerRun") ~> (runPc[c] = "returned")

\* C10: two handler invocations of one controller on the same objects that
\* have returned built the same records in the same order, whatever happened
\* between them
C10_Deterministic ==
    \A i, j \in Invocations :
        ( /\ Returned(i) /\ Returned(j)
          /\ calls[i].ctrl = calls[j].ctrl
          /\ calls[i].kind = calls[j].kind
          /\ calls[i].objs = calls[j].objs )
            => built[i] = built[j]

\* one controller has built records twice from the same object, once before
\* and once after the Services of the cluster changed
C10_Witness ==
    \E i, j \in Invocations :
        /\ i # j
        /\ Returned(i) /\ Returned(j)
        /\ calls[i].ctrl = calls[j].ctrl
        /\ calls[i].kind = calls[j].kind
        /\ calls[i].objs = calls[j].objs
        /\ calls[i].stale # calls[j].stale
        /\ built[i] # <<>>

\* C11: the Services are listed at most once for a controller, and exactly
\* once for a constructed one, whatever events it has handled since; a
\* controller whose listing failed is never constructed: the process has
\* ended, Run was not started for it and no handler of it was ever invoked
C11_ResolvedOnce ==
    /\ \A c \in Controllers :
          /\ resolveCount[c] <= 1
          /\ ctor[c] = "built" => resolveCount[c] = 1
          /\ (resolveCount[c] = 1 /\ ctor[c] = "none") =>
                /\ aborted
                /\ runPc[c] = "init"
                /\ \A inv \in Invocations : calls[inv].ctrl # c
    /\ \A k \in 1..Len(sentOrder) : ctor[calls[sentOrder[k].inv].ctrl] = "built"

\* one controller was constructed and has since handled an event after the
\* Services changed; the listing of the other controller failed
C11_Witness ==
    \E c, d \in Controllers :
        /\ ctor[c] = "built" /\ resolveCount[c] = 1
        /\ \E k \in 1..Len(received) :
              calls[received[k].inv].ctrl = c /\ calls[received[k].inv].stale
        /\ ctor[d] = "none" /\ resolveCount[d] = 1 /\ aborted

C13_EmptyIPsStillForwarded ==
    \A inv \in Invocations :
        (Returned(inv) /\ dstIPAddr[calls[inv].ctrl] = <<>>) =>
            /\ built[inv] = WithIPs(HandlerRecords(getDstIPAddr(L_two),
                                                   calls[inv].kind, calls[inv].objs),
                                    <<>>)
            /\ StreamOf(inv) = built[inv]

\* a controller constructed from a listing without a Traefik LoadBalancer
\* service has had a record with no IPs received, and the process lives
C13_Witness ==
    \E k \in 1..Len(received) :
        /\ received[k].rec.IPs = <<>>
        /\ getDstIPAddr(ctorListing[calls[received[k].inv].ctrl]) = <<>>
        /\ ctorListing[calls[received[k].inv].ctrl] # <<>>
        /\ ctor[calls[received[k].inv].ctrl] = "built"
        /\ Returned(received[k].inv)
        /\ ~aborted

-----------------------------------------------------------------------------
(* Properties of the functions *)

RECURSIVE HasMatcher(_, _)
\* some node of the tree has the given Matcher
HasMatcher(tree, matcher) ==
    \/ tree.Matcher = matcher
    \/ tree.RuleLeft # <<>> /\ HasMatcher(tree.RuleLeft[1], matcher)
    \/ tree.RuleRight # <<>> /\ HasMatcher(tree.RuleRight[1], matcher)

RECURSIVE HostsPostOrder(_)
\* the first arguments of the Host nodes that are not negated: those of the
\* left subtree, then those of the right subtree, then the node's own
HostsPostOrder(tree) ==
    (IF tree.RuleLeft # <<>> THEN HostsPostOrder(tree.RuleLeft[1]) ELSE <<>>)
        \o (IF tree.RuleRight # <<>> THEN HostsPostOrder(tree.RuleRight[1]) ELSE <<>>)
        \o (IF tree.Matcher = "Host" /\ ~tree.Not THEN <<tree.Value[1]>> ELSE <<>>)

\* C14: for a tree without a HostRegexp node extractHosts returns, without
\* error, the first arguments of the Host nodes that are not negated, in
\* post-order, whatever the composite nodes are and whether or not they are
\* negated
C14_PostOrderHosts ==
    (arg.fn = "extractHosts" /\ ret # <<>> /\ ~HasMatcher(arg.val, "HostRegexp"))
        => ret[1] = [hosts |-> HostsPostOrder(arg.val), err |-> ""]

\* extractHosts has returned two hosts, left before right, for a negated
\* composite node over two Host clauses
C14_Witness ==
    /\ arg.fn = "extractHosts" /\ ret # <<>>
    /\ arg.val.Not /\ arg.val.RuleLeft # <<>>
    /\ ret[1].hosts = <<H_a, H_b>>

RECURSIVE HasPlainMatcher(_, _)
\* some node of the tree has the given Matcher and is not itself negated
HasPlainMatcher(tree, matcher) ==
    \/ tree.Matcher = matcher /\ ~tree.Not
    \/ tree.RuleLeft # <<>> /\ HasPlainMatcher(tree.RuleLeft[1], matcher)
    \/ tree.RuleRight # <<>> /\ HasPlainMatcher(tree.RuleRight[1], matcher)

\* what a failed extraction looks like, from extractHosts and from the
\* route entry built on it
ExtractionFailed ==
    /\ ret[1].err = "HostRegexp not supported"
    /\ arg.fn = "routeEntry" => ret[1].records = <<>>

\* C15 as stated: for every tree with a HostRegexp node the extraction
\* fails and the route entry yields no record
C15_AnyHostRegexpFails ==
    (arg.fn \in {"extractHosts", "routeEntry"} /\ ret # <<>>
        /\ HasMatcher(arg.val, "HostRegexp"))
            => ExtractionFailed

\* C15 amended: for every tree with a HostRegexp node that is not itself
\* negated the extraction fails and the route entry yields no record,
\* whatever Host clauses the tree has elsewhere; a tree whose HostRegexp
\* nodes are all negated is extracted without error
C15_PlainHostRegexpFails ==
    (arg.fn \in {"extractHosts", "routeEntry"} /\ ret # <<>>)
        => IF HasPlainMatcher(arg.val, "HostRegexp")
           THEN ExtractionFailed
           ELSE ret[1].err = ""

\* a route entry whose tree has a .local Host clause before a HostRegexp
\* clause has yielded an error and no record
C15_Witness ==
    /\ arg.fn = "routeEntry" /\ ret # <<>>
    /\ arg.val.RuleLeft = << Leaf("Host", FALSE, H_a) >>
    /\ arg.val.RuleRight = << Leaf("HostRegexp", FALSE, RE_local) >>
    /\ ret[1].records = <<>> /\ ret[1].err # ""

\* the name advertised for each host of HostSet, as a list of at most one
\* name: example.com does not end in .local; ".local" and "a..local" have
\* an empty label and fail canonicalization; "/.local" has an empty URL
\* host, which canonicalizes to an empty name
NamesOf(host) ==
    CASE host = H_a -> << <<"a">> >>
      [] host = H_b -> << <<"b">> >>
      [] host = H_svc_ns -> << <<"s", "v", "c", ".", "n", "s">> >>
      [] host = H_slash -> << <<>> >>
      [] OTHER -> <<>>

\* C16: the host loop yields exactly one record for every host that ends in
\* .local and canonicalizes, in the order of the hosts, whatever hosts
\* before, between or after them are skipped
C16_HostsIsolated ==
    (arg.fn = "hostRecords" /\ ret # <<>>) =>
        LET names == FlattenSeq([i \in 1..Len(arg.val) |-> NamesOf(arg.val[i])])
        IN  /\ Len(ret[1]) = Len(names)
            /\ \A i \in 1..Len(names) : ret[1][i].Name = names[i]

\* the host loop has yielded the records of a.local and b.local, in that
\* order, for three hosts of which the second fails canonicalization
C16_Witness ==
    /\ arg.fn = "hostRecords" /\ ret # <<>>
    /\ arg.val = <<H_a, H_empty_label, H_b>>
    /\ Len(ret[1]) = 2
    /\ ret[1][1].Name = <<"a">> /\ ret[1][2].Name = <<"b">>

\* a Service that getDstIPAddr takes IPs from
IsTraefikLB(service) == service.name = "traefik" /\ service.type = "LoadBalancer"

\* an IP text that net.ParseIP accepts
IsValidIP(str) == ParseIP(str) # NilIP

\* the valid ingress IPs of the Traefik LoadBalancer services of a listing
ListedIPs(services) ==
    LET texts == FlattenSeq([i \in 1..Len(SelectSeq(services, IsTraefikLB)) |->
                                SelectSeq(services, IsTraefikLB)[i].ingress])
    IN  [i \in 1..Len(SelectSeq(texts, IsValidIP)) |->
            ParseIP(SelectSeq(texts, IsValidIP)[i])]

\* C17: getDstIPAddr returns the valid ingress IPs of the Traefik
\* LoadBalancer services, services in listing order and each service's IPs
\* in their order, a repeated IP as often as it is listed; an invalid IP
\* text is left out alone
C17_ListedIPsInOrder ==
    (arg.fn = "getDstIPAddr" /\ ret # <<>>) => ret[1] = ListedIPs(arg.val)

\* getDstIPAddr has returned 10.0.0.2, 10.0.0.1, 10.0.0.1 for a service
\* with an invalid IP text between two valid ones, followed by a service
\* that repeats an IP
C17_Witness ==
    /\ arg.fn = "getDstIPAddr" /\ ret # <<>>
    /\ Len(arg.val) = 2
    /\ arg.val[1].ingress = << "10.0.0.2", "not-an-ip", "10.0.0.1" >>
    /\ ret[1] = << <<10, 0, 0, 2>>, <<10, 0, 0, 1>>, <<10, 0, 0, 1>> >>

-----------------------------------------------------------------------------
(* Properties of the stream over an object's life *)

\* the records the handlers of controller c have handed to the channel
SentBy(c) ==
    LET ofCtrl(item) == calls[item.inv].ctrl = c
        items == SelectSeq(sentOrder, ofCtrl)
    IN  [i \in 1..Len(items) |-> items[i].rec]

\* the records buildRecords yields for the objects controller c knows
LiveRecords(c) ==
    FlattenSeq([i \in 1..Len(Namespaces) |->
        IF Live(c, Namespaces[i]) = <<>> THEN <<>>
        ELSE buildRecords(dstIPAddr[c], Live(c, Namespaces[i])[1], Added).records])

KeyOf(rec) == <<rec.Namespace, rec.Name>>

\* the number of records of the sequence with the given key and action
CountOf(records, key, action) ==
    Cardinality({i \in 1..Len(records) :
                    KeyOf(records[i]) = key /\ records[i].Action = action})

\* C18: whenever no handler of a controller is in progress, for every
\* (Namespace, Name) the Added records minus the Deleted records it has
\* sent number the records with that key that buildRecords yields for the
\* route objects it knows
C18_AdvertisementBalance ==
    \A c \in Controllers :
        idle(c) =>
            \A key \in {KeyOf(SentBy(c)[i]) : i \in 1..Len(SentBy(c))}
                        \cup {KeyOf(LiveRecords(c)[i]) : i \in 1..Len(LiveRecords(c))} :
                CountOf(SentBy(c), key, Added) - CountOf(SentBy(c), key, Deleted)
                    = CountOf(LiveRecords(c), key, Added)

\* a controller has handled the add of a route object and then an update
\* of it to another state, and has sent Deleted and Added records for it
C18_Witness ==
    \E c \in Controllers :
        /\ idle(c)
        /\ \E i, j \in Invocations :
              /\ i < j
              /\ calls[i].ctrl = c /\ calls[j].ctrl = c
              /\ calls[i].kind = "add" /\ calls[j].kind = "update"
              /\ calls[j].objs[1] = calls[i].objs[1]
              /\ calls[j].objs[2] # calls[j].objs[1]
              /\ \E m, n \in 1..Len(built[j]) :
                    built[j][m].Action = Deleted /\ built[j][n].Action = Added

-----------------------------------------------------------------------------
(* Properties of a handler's records as a whole *)

\* the records of all Route entries of obj if every entry builds, none
\* otherwise
AllOrNone(dst, obj, action) ==
    IF \E i \in 1..Len(obj.Routes) : ~EntryBuilds(obj, i) THEN <<>>
    ELSE BuildingEntriesRecords(dst, obj, action)

\* C19: a handler that has returned has sent, for each of its objects,
\* either the records of all its Route entries or, if any entry fails to
\* parse or extract, none at all, those of the entries before the failing
\* one included
C19_AllOrNothing ==
    \A inv \in Invocations :
        (Returned(inv) /\ \A i \in 1..Len(calls[inv].objs) :
                             calls[inv].objs[i].kind = "IngressRoute") =>
            /\ StreamOf(inv) = built[inv]
            /\ built[inv] =
                  IF calls[inv].kind = "update"
                  THEN forceAction(AllOrNone(dstIPAddr[calls[inv].ctrl],
                                             calls[inv].objs[1], Updated), Deleted)
                          \o forceAction(AllOrNone(dstIPAddr[calls[inv].ctrl],
                                                   calls[inv].objs[2], Updated), Added)
                  ELSE AllOrNone(dstIPAddr[calls[inv].ctrl], calls[inv].objs[1],
                                 ActionOf(calls[inv].kind))

\* an update has returned whose old object has a first Route entry that
\* alone yields a record and a later entry in error: nothing was sent for
\* the old object, and the Added records of the new object were sent
C19_Witness ==
    \E inv \in Invocations :
        /\ calls[inv].kind = "update" /\ Returned(inv)
        /\ calls[inv].objs[1].kind = "IngressRoute"
        /\ Len(calls[inv].objs[1].Routes) > 1
        /\ EntryBuilds(calls[inv].objs[1], 1)
        /\ EntryRecords(dstIPAddr[calls[inv].ctrl], calls[inv].objs[1], 1, Updated) # <<>>
        /\ \E i \in 1..Len(calls[inv].objs[1].Routes) : ~EntryBuilds(calls[inv].objs[1], i)
        /\ StreamOf(inv) # <<>>
        /\ \A k \in 1..Len(StreamOf(inv)) : StreamOf(inv)[k].Action = Added

\* C20: a handler invoked with an object that is not a route object builds
\* nothing for it, without error: an add or delete of such an object
\* returns at once having sent nothing, an update sends exactly the records
\* of its other side, and the IPs of the controller stay as resolved
C20_NonRouteIgnored ==
    \A inv \in Invocations :
        LET dst == dstIPAddr[calls[inv].ctrl]
            objs == calls[inv].objs
            foreign == {i \in 1..Len(objs) : objs[i].kind # "IngressRoute"}
        IN  foreign # {} =>
              /\ dst = getDstIPAddr(ctorListing[calls[inv].ctrl])
              /\ \A i \in foreign :
                    buildRecords(dst, objs[i], Updated) = [records |-> <<>>, err |-> ""]
              /\ calls[inv].kind \in {"add", "delete"} =>
                    (Returned(inv) /\ built[inv] = <<>> /\ StreamOf(inv) = <<>>)
              /\ (calls[inv].kind = "update" /\ Returned(inv)) =>
                    StreamOf(inv) =
                        (IF 1 \in foreign THEN <<>>
                         ELSE forceAction(buildRecords(dst, objs[1], Updated).records,
                                          Deleted))
                        \o (IF 2 \in foreign THEN <<>>
                            ELSE forceAction(buildRecords(dst, objs[2], Updated).records,
                                             Added))

\* a delete that carried a tombstone has returned with nothing sent, and an
\* update from a tombstone to a route has had its Added record received
C20_Witness ==
    /\ \E inv \in Invocations :
          /\ calls[inv].kind = "delete" /\ calls[inv].objs[1] = Tombstone
          /\ Returned(inv)
    /\ \E k \in 1..Len(received) :
          /\ calls[received[k].inv].kind = "update"
          /\ calls[received[k].inv].objs[1] = Tombstone
          /\ received[k].rec.Action = Added

====
